---- MODULE Spec2Model ----
(***************************************************************************)
(* Risk / position state machine of the trading repository:                *)
(*   - PositionManager   (src/src/position_manager.py): position sizing     *)
(*     and per-symbol trailing stops, synchronous.                          *)
(*   - ExecutionClient   (src/src/execution_client.py): trailing stops      *)
(*     driven by an asyncio monitor task, with the coroutines' suspension   *)
(*     points as separate steps.                                            *)
(*   - Backtester        (src/src/backtester.py): the portfolio that the    *)
(*     backtest loop fills from the agent's decisions.                      *)
(*                                                                          *)
(* Number encoding.  Prices are positive integers.  A percentage is kept    *)
(* as an integer number of hundredths (PositionManager's trail_percent 0.1  *)
(* is 10; ExecutionClient's trail_percent 10.0, which the code divides by   *)
(* 100, is 10 as well).  A stop price, the product price * (1 -/+ trail),   *)
(* is kept in hundredths: price * (100 -/+ trail).  A comparison of a price *)
(* with a stop price therefore multiplies the price by 100.  Position       *)
(* sizing divides, so it is computed over exact fractions <<num, den>>.     *)
(*                                                                          *)
(* Optional[T] is a sequence: None is <<>>, a value v is <<v>>.             *)
(*                                                                          *)
(* The classes share no state, so a behaviour exercises one of them; the    *)
(* variable component says which.                                           *)
(***************************************************************************)
EXTENDS Integers, Sequences, FiniteSets, TLC

VARIABLES
    component,          \* which object this behaviour exercises
    pm_trailing_stops,  \* PositionManager.trailing_stops : symbol -> Optional[TrailingStop]
    position_sizes,     \* PositionManager.position_sizes : symbol -> Optional[PositionSize]
    pm_call,            \* the last PositionManager call: its arguments, what it returned
                        \*   and (before) the symbol's stop when it was made
    trailing_stops,     \* ExecutionClient.trailing_stops, a dict in insertion order:
                        \*   a sequence of [symbol, stop], stop an index into heap
    heap,               \* the TrailingStop objects the client has created, by identity
    price_update_task,  \* ExecutionClient._price_update_task: 0 is None, else an index into tasks
    stop_price_updates, \* ExecutionClient._stop_price_updates: whether the Event is set
    tasks,              \* the _update_trailing_stops tasks created so far, each at its await
                        \*   (pc), with the snapshot of its tick (items), its place in
                        \*   it (i) and the symbol whose price fetch ended its last tick
                        \*   (failed)
    set_calls,          \* the set_trailing_stop coroutines suspended in get_market_price (line 98)
    stop_waiters,       \* per task, the stop_price_updates coroutines suspended at line 37
    executor,           \* Backtester.executor: whether it is an ExecutionClient (TRUE) or None
    portfolio,          \* Backtester.portfolio: cash, stock and, once a step has run,
                        \*   portfolio_value
    portfolio_values,   \* Backtester.portfolio_values: the snapshots run_backtest appended
    bt_call             \* the last Backtester.execute_trade call: the agent output it came
                        \*   from, its arguments, what the executor did (outcome), what it
                        \*   returned and (before) the portfolio when it was made

pmVars == <<pm_trailing_stops, position_sizes, pm_call>>
ecVars == <<trailing_stops, heap, price_update_task, stop_price_updates, tasks,
            set_calls, stop_waiters>>
btVars == <<executor, portfolio, portfolio_values, bt_call>>
vars == <<component, pm_trailing_stops, position_sizes, pm_call, trailing_stops, heap,
          price_update_task, stop_price_updates, tasks, set_calls, stop_waiters,
          executor, portfolio, portfolio_values, bt_call>>

None == <<>>
Some(v) == <<v>>

Symbols == {"A", "B"}

(***************************************************************************)
(* PositionManager: trailing stops                                         *)
(***************************************************************************)

\* Inputs of the trailing-stop calls.
PMPrices == {90, 100, 110, 120}
PMTrails == {10, 20}
PMActivations == {None, Some(100), Some(110)}

\* mutant: an activation price always leaves the stop pending
PM_is_active_AlwaysPending(current_price, activation_price) ==
    activation_price = None

\* position_manager.py:95
PM_is_active(current_price, activation_price) ==
    activation_price = None \/ current_price >= activation_price[1]

\* position_manager.py:97-103: the TrailingStop that set_trailing_stop builds
PM_NewStop(trail_percent, current_price, activation_price) ==
    [activation_price |-> activation_price,
     trail_percent    |-> trail_percent,
     current_stop     |-> current_price * (100 - trail_percent),
     high_water_mark  |-> current_price,
     is_active        |-> PM_is_active(current_price, activation_price)]

\* position_manager.py:124-129: activation of a pending stop
PM_Activate(stop, current_price) ==
    IF ~stop.is_active /\ stop.activation_price # None
       /\ current_price >= stop.activation_price[1]
    THEN [stop EXCEPT !.is_active = TRUE,
                      !.high_water_mark = current_price,
                      !.current_stop = current_price * (100 - stop.trail_percent)]
    ELSE stop

\* mutant: the stop follows the price in both directions
PM_Ratchet_NoHighWaterMark(stop, current_price) ==
    IF stop.is_active /\ current_price # stop.high_water_mark
    THEN [stop EXCEPT !.high_water_mark = current_price,
                      !.current_stop = current_price * (100 - stop.trail_percent)]
    ELSE stop

\* position_manager.py:131-136: the ratchet of an active stop
PM_Ratchet(stop, current_price) ==
    IF stop.is_active /\ current_price > stop.high_water_mark
    THEN [stop EXCEPT !.high_water_mark = current_price,
                      !.current_stop = current_price * (100 - stop.trail_percent)]
    ELSE stop

\* position_manager.py:132,139: the trigger test on the updated stop
PM_Hit(stop, current_price) ==
    stop.is_active /\ current_price * 100 <= stop.current_stop

\* position_manager.py:108-142: the stop after the update
PM_Updated(stop, current_price) ==
    PM_Ratchet(PM_Activate(stop, current_price), current_price)

\* position_manager.py:81-106
PM_set_trailing_stop(symbol, trail_percent, current_price, activation_price) ==
    LET trailing_stop == PM_NewStop(trail_percent, current_price, activation_price)
    IN  /\ pm_trailing_stops' = [pm_trailing_stops EXCEPT ![symbol] = Some(trailing_stop)]
        /\ pm_call' = [op |-> "set_trailing_stop", symbol |-> symbol,
                       current_price |-> current_price,
                       activation_price |-> activation_price,
                       trail_percent |-> trail_percent,
                       before |-> pm_trailing_stops[symbol],
                       ret |-> Some(trailing_stop)]
        /\ UNCHANGED position_sizes

\* position_manager.py:108-142
PM_update_trailing_stop(symbol, current_price) ==
    IF pm_trailing_stops[symbol] = None
    THEN /\ pm_call' = [op |-> "update_trailing_stop", symbol |-> symbol,
                        current_price |-> current_price,
                        activation_price |-> None, trail_percent |-> 0,
                        before |-> None, ret |-> None]
         /\ UNCHANGED <<pm_trailing_stops, position_sizes>>
    ELSE LET stop == PM_Updated(pm_trailing_stops[symbol][1], current_price)
         IN  /\ pm_trailing_stops' = [pm_trailing_stops EXCEPT ![symbol] = Some(stop)]
             /\ pm_call' = [op |-> "update_trailing_stop", symbol |-> symbol,
                            current_price |-> current_price,
                            activation_price |-> None, trail_percent |-> 0,
                            before |-> pm_trailing_stops[symbol],
                            ret |-> IF PM_Hit(stop, current_price)
                                    THEN Some(stop) ELSE None]
             /\ UNCHANGED position_sizes

\* mutant: removing one symbol's stop empties the stop map
PM_remove_trailing_stop_ClearsAll(symbol) ==
    /\ pm_trailing_stops' = [s \in Symbols |-> None]
    /\ pm_call' = [op |-> "remove_trailing_stop", symbol |-> symbol,
                   current_price |-> 0, activation_price |-> None,
                   trail_percent |-> 0, before |-> pm_trailing_stops[symbol],
                   ret |-> None]
    /\ UNCHANGED position_sizes

\* position_manager.py:144-147
PM_remove_trailing_stop(symbol) ==
    /\ pm_trailing_stops' = [pm_trailing_stops EXCEPT ![symbol] = None]
    /\ pm_call' = [op |-> "remove_trailing_stop", symbol |-> symbol,
                   current_price |-> 0, activation_price |-> None,
                   trail_percent |-> 0, before |-> pm_trailing_stops[symbol],
                   ret |-> None]
    /\ UNCHANGED position_sizes

(***************************************************************************)
(* PositionManager: position sizing, over exact fractions                  *)
(***************************************************************************)

RECURSIVE GCD(_, _)
GCD(a, b) == IF b = 0 THEN a ELSE GCD(b, a % b)

Abs(x) == IF x < 0 THEN -x ELSE x

\* The fraction n/d (d # 0) in lowest terms with a positive denominator.
Frac(n, d) ==
    LET g == GCD(Abs(n), Abs(d))
        sg == IF d < 0 THEN -1 ELSE 1
    IN  <<sg * (n \div g), sg * (d \div g)>>

FInt(n) == <<n, 1>>
FMul(x, y) == Frac(x[1] * y[1], x[2] * y[2])
FDiv(x, y) == Frac(x[1] * y[2], x[2] * y[1])       \* y # 0
FLess(x, y) == x[1] * y[2] < y[1] * x[2]
FLeq(x, y) == x[1] * y[2] <= y[1] * x[2]
FAbs(x) == <<Abs(x[1]), x[2]>>
FSub(x, y) == Frac(x[1] * y[2] - y[1] * x[2], x[2] * y[2])
FIsZero(x) == x[1] = 0
\* Python's min(a, b): b only when b < a
FMin(a, b) == IF FLess(b, a) THEN b ELSE a

\* Inputs of calculate_position_size: account_value, entry_price, stop_loss and
\* max_leverage are integers, risk_percent and max_position_percent hundredths.
SizerInputs ==
    ([account_value : {0, 1000}, risk_percent : {1, 50, 150}, entry_price : {0, 100},
      stop_loss : {99, 100}, max_leverage : {1, 5}, max_position_percent : {0, 20}])
    \cup {[account_value |-> 100000, risk_percent |-> 1, entry_price |-> 2000,
           stop_loss |-> 1900, max_leverage |-> 5, max_position_percent |-> 20]}

\* mutant: the zero price distance is not detected
PM_SizeRaises_DistanceIgnored(in) ==
    \/ in.entry_price = 0
    \/ in.account_value * in.max_position_percent = 0

\* mutant: the entry price is left out of the required leverage
PM_required_leverage_NoEntryPrice(in) ==
    LET risk_amount == FMul(FInt(in.account_value), Frac(in.risk_percent, 100))
        price_distance == FAbs(FSub(FInt(in.entry_price), FInt(in.stop_loss)))
        base_position_size == FDiv(risk_amount, price_distance)
    IN  FDiv(base_position_size,
             FMul(FInt(in.account_value), Frac(in.max_position_percent, 100)))

\* position_manager.py:51-58: the divisions that raise ZeroDivisionError
PM_SizeRaises(in) ==
    \/ in.entry_price = 0                                       \* line 52
    \/ in.entry_price = in.stop_loss                            \* line 55
    \/ in.account_value * in.max_position_percent = 0           \* line 58

\* position_manager.py:47-58
PM_required_leverage(in) ==
    LET risk_amount == FMul(FInt(in.account_value), Frac(in.risk_percent, 100))
        price_distance == FAbs(FSub(FInt(in.entry_price), FInt(in.stop_loss)))
        base_position_size == FDiv(risk_amount, price_distance)
    IN  FDiv(FMul(base_position_size, FInt(in.entry_price)),
             FMul(FInt(in.account_value), Frac(in.max_position_percent, 100)))

\* mutant: the leverage limit is not applied
PM_leverage_Unclamped(in) ==
    PM_required_leverage(in)

\* position_manager.py:60-61
PM_leverage(in) ==
    FMin(PM_required_leverage(in), FInt(in.max_leverage))

\* position_manager.py:47-76: the PositionSize of an input that does not raise
PM_PositionSize(in) ==
    LET risk_amount == FMul(FInt(in.account_value), Frac(in.risk_percent, 100))
        price_distance == FAbs(FSub(FInt(in.entry_price), FInt(in.stop_loss)))
        base_position_size == FDiv(risk_amount, price_distance)
        leverage == PM_leverage(in)
        position_size == FMul(base_position_size, leverage)
        max_position_size ==
            FMul(FMul(FInt(in.account_value), Frac(in.max_position_percent, 100)),
                 leverage)
    IN  [risk_percent      |-> Frac(in.risk_percent, 100),
         account_value     |-> FInt(in.account_value),
         max_position_size |-> max_position_size,
         position_size     |-> FMin(position_size, max_position_size),
         leverage          |-> leverage]

\* mutant: the result is recorded for every symbol
PM_calculate_position_size_AllSymbols(symbol, in) ==
    /\ IF PM_SizeRaises(in)
       THEN /\ pm_call' = [op |-> "calculate_position_size", symbol |-> symbol,
                           in |-> in, raised |-> TRUE, ret |-> None]
            /\ UNCHANGED position_sizes
       ELSE LET position_sizing == PM_PositionSize(in)
            IN  /\ position_sizes' = [s \in Symbols |-> Some(position_sizing)]
                /\ pm_call' = [op |-> "calculate_position_size", symbol |-> symbol,
                               in |-> in, raised |-> FALSE,
                               ret |-> Some(position_sizing)]
    /\ UNCHANGED pm_trailing_stops

\* position_manager.py:27-79; raised tells whether the call raised
PM_calculate_position_size(symbol, in) ==
    /\ IF PM_SizeRaises(in)
       THEN /\ pm_call' = [op |-> "calculate_position_size", symbol |-> symbol,
                           in |-> in, raised |-> TRUE, ret |-> None]
            /\ UNCHANGED position_sizes
       ELSE LET position_sizing == PM_PositionSize(in)
            IN  /\ position_sizes' = [position_sizes EXCEPT ![symbol] = Some(position_sizing)]
                /\ pm_call' = [op |-> "calculate_position_size", symbol |-> symbol,
                               in |-> in, raised |-> FALSE,
                               ret |-> Some(position_sizing)]
    /\ UNCHANGED pm_trailing_stops

(***************************************************************************)
(* ExecutionClient: trailing stops and the monitor task                    *)
(*                                                                         *)
(* asyncio runs one coroutine at a time and switches only at an await that *)
(* suspends, so an action is the code from one suspension to the next.     *)
(* The suspending awaits are the HTTP calls (get_market_price,             *)
(* get_position, execute_trade), asyncio.sleep, and awaiting a task that   *)
(* has not finished.  What an HTTP call answers, and when, is the          *)
(* environment's choice.                                                   *)
(***************************************************************************)

\* Bounds of the model.
MaxSets == 2        \* TrailingStop objects created in one behaviour
MaxTasks == 3       \* monitor tasks created in one behaviour
MaxCalls == 2       \* public calls suspended at the same time

\* Inputs of the client's calls and answers of the price feed.
ECPrices == {90, 100}
ECTrails == {10}
ECSides == {"long", "short"}
ECOffsets == {None, Some(10)}

\* dict operations on trailing_stops
Keys(d) == {d[k].symbol : k \in DOMAIN d}
IndexOf(d, symbol) == CHOOSE k \in DOMAIN d : d[k].symbol = symbol
DictSet(d, symbol, stop) ==
    IF symbol \in Keys(d)
    THEN [d EXCEPT ![IndexOf(d, symbol)].stop = stop]
    ELSE Append(d, [symbol |-> symbol, stop |-> stop])
DictDel(d, symbol) ==
    SelectSeq(d, LAMBDA e : e.symbol # symbol)

\* execution_client.py:73-78, in hundredths
EC_calculate_stop_price(current_price, trail_percent, side) ==
    IF side = "long"
    THEN current_price * (100 - trail_percent)
    ELSE current_price * (100 + trail_percent)

\* execution_client.py:100-103: Optional fraction
EC_activation_price(current_price, side, activation_offset) ==
    IF activation_offset = None THEN None
    ELSE IF side = "long"
         THEN Some(Frac(current_price * (100 + activation_offset[1]), 100))
         ELSE Some(Frac(current_price * 100, 100 + activation_offset[1]))

\* execution_client.py:105-115: the TrailingStop that set_trailing_stop stores
EC_NewStop(symbol, trail_percent, side, activation_offset, current_price) ==
    LET activation_price == EC_activation_price(current_price, side, activation_offset)
    IN  [symbol           |-> symbol,
         trail_percent    |-> trail_percent,
         activation_price |-> activation_price,
         current_stop     |-> EC_calculate_stop_price(current_price, trail_percent, side),
         is_active        |-> activation_price = None,
         side             |-> side]

\* mutant: the short side is tested like the long side
EC_ActivationReached_IgnoresSide(stop, current_price) ==
    FLeq(stop.activation_price[1], FInt(current_price))

\* execution_client.py:49-50
EC_ActivationReached(stop, current_price) ==
    \/ stop.side = "long" /\ FLeq(stop.activation_price[1], FInt(current_price))
    \/ stop.side = "short" /\ FLeq(FInt(current_price), stop.activation_price[1])

\* execution_client.py:47-52
EC_Activate(stop, current_price) ==
    IF ~stop.is_active /\ stop.activation_price # None
       /\ EC_ActivationReached(stop, current_price)
    THEN [stop EXCEPT !.is_active = TRUE,
                      !.current_stop = EC_calculate_stop_price(
                          current_price, stop.trail_percent, stop.side)]
    ELSE stop

\* execution_client.py:58,63: whether the recomputed stop is adopted
EC_Tightens(stop, current_price) ==
    LET new_stop == EC_calculate_stop_price(current_price, stop.trail_percent, stop.side)
    IN  IF stop.side = "long"
        THEN new_stop > stop.current_stop
        ELSE new_stop < stop.current_stop

\* execution_client.py:54-59,62-64: the ratchet, on the stop after activation
EC_Ratchet(stop, current_price) ==
    IF stop.is_active /\ EC_Tightens(stop, current_price)
    THEN [stop EXCEPT !.current_stop = EC_calculate_stop_price(
                          current_price, stop.trail_percent, stop.side)]
    ELSE stop

\* mutant: the trigger test ignores is_active
EC_Triggers_IgnoresActive(stop, current_price) ==
    /\ ~EC_Tightens(stop, current_price)
    /\ IF stop.side = "long"
       THEN current_price * 100 <= stop.current_stop
       ELSE current_price * 100 >= stop.current_stop

\* execution_client.py:55,60,65: whether _execute_stop is called, on the stop
\* after activation
EC_Triggers(stop, current_price) ==
    /\ stop.is_active
    /\ ~EC_Tightens(stop, current_price)
    /\ IF stop.side = "long"
       THEN current_price * 100 <= stop.current_stop
       ELSE current_price * 100 >= stop.current_stop

\* execution_client.py:27-31, called with the dict already updated to d
EC_start(task, event, ts) ==
    IF task = 0
    THEN [task |-> Len(ts) + 1, event |-> FALSE,
          tasks |-> Append(ts, [pc |-> "sleep", items |-> <<>>, i |-> 0,
                                failed |-> None])]
    ELSE [task |-> task, event |-> event, tasks |-> ts]

RECURSIVE SumTo(_, _)
SumTo(f, n) == IF n = 0 THEN 0 ELSE f[n] + SumTo(f, n - 1)

\* the public calls that are suspended
Suspended == Cardinality(set_calls) + SumTo(stop_waiters, MaxTasks)

ecFrame == component = "ExecutionClient" /\ UNCHANGED <<component, pmVars, btVars>>

\* execution_client.py:27-31
EC_start_price_updates ==
    /\ ecFrame
    /\ price_update_task = 0 => Len(tasks) < MaxTasks
    /\ LET r == EC_start(price_update_task, stop_price_updates, tasks)
       IN  /\ price_update_task' = r.task
           /\ stop_price_updates' = r.event
           /\ tasks' = r.tasks
    /\ UNCHANGED <<trailing_stops, heap, set_calls, stop_waiters>>

\* execution_client.py:33-38 up to the await; an await of a finished task
\* does not suspend
EC_stop(task) ==
    IF task = 0
    THEN UNCHANGED <<price_update_task, stop_price_updates, stop_waiters>>
    ELSE /\ stop_price_updates' = TRUE
         /\ IF tasks[task].pc = "done"
            THEN price_update_task' = 0 /\ UNCHANGED stop_waiters
            ELSE /\ Suspended < MaxCalls
                 /\ stop_waiters' = [stop_waiters EXCEPT ![task] = @ + 1]
                 /\ UNCHANGED price_update_task

\* execution_client.py:33-38
EC_stop_price_updates ==
    /\ ecFrame
    /\ EC_stop(price_update_task)
    /\ UNCHANGED <<trailing_stops, heap, tasks, set_calls>>

\* execution_client.py:37-38: the awaited task has finished
EC_StopResumed(t) ==
    /\ ecFrame
    /\ t \in DOMAIN tasks
    /\ tasks[t].pc = "done"
    /\ stop_waiters[t] > 0
    /\ stop_waiters' = [stop_waiters EXCEPT ![t] = @ - 1]
    /\ price_update_task' = 0
    /\ UNCHANGED <<trailing_stops, heap, stop_price_updates, tasks, set_calls>>

\* execution_client.py:95-98: the call, suspended in get_market_price
EC_SetCalled(symbol, trail_percent, side, activation_offset) ==
    LET c == [symbol |-> symbol, trail_percent |-> trail_percent, side |-> side,
              activation_offset |-> activation_offset]
    IN  /\ ecFrame
        /\ c \notin set_calls
        /\ Suspended < MaxCalls
        /\ Len(heap) + Cardinality(set_calls) < MaxSets
        /\ set_calls' = set_calls \cup {c}
        /\ UNCHANGED <<trailing_stops, heap, price_update_task, stop_price_updates,
                       tasks, stop_waiters>>

\* execution_client.py:98,161-169: get_market_price raises, and so does the call
EC_SetPriceFailed(c) ==
    /\ ecFrame
    /\ c \in set_calls
    /\ set_calls' = set_calls \ {c}
    /\ UNCHANGED <<trailing_stops, heap, price_update_task, stop_price_updates,
                   tasks, stop_waiters>>

\* execution_client.py:98-117: get_market_price answers current_price
EC_SetPriced(c, current_price) ==
    /\ ecFrame
    /\ c \in set_calls
    /\ price_update_task = 0 => Len(tasks) < MaxTasks
    /\ set_calls' = set_calls \ {c}
    /\ heap' = Append(heap, EC_NewStop(c.symbol, c.trail_percent, c.side,
                                       c.activation_offset, current_price))
    /\ trailing_stops' = DictSet(trailing_stops, c.symbol, Len(heap) + 1)
    /\ LET r == EC_start(price_update_task, stop_price_updates, tasks)
       IN  /\ price_update_task' = r.task
           /\ stop_price_updates' = r.event
           /\ tasks' = r.tasks
    /\ UNCHANGED stop_waiters

\* execution_client.py:119-125
EC_remove_trailing_stop(symbol) ==
    /\ ecFrame
    /\ trailing_stops' = DictDel(trailing_stops, symbol)
    /\ IF trailing_stops' = <<>>
       THEN EC_stop(price_update_task)
       ELSE UNCHANGED <<price_update_task, stop_price_updates, stop_waiters>>
    /\ UNCHANGED <<heap, tasks, set_calls>>

\* execution_client.py:44-45,67-71: on to the next item of the snapshot, or to
\* the sleep that ends the tick
Advance(task) ==
    IF task.i < Len(task.items)
    THEN [task EXCEPT !.pc = "get_market_price", !.i = @ + 1]
    ELSE [pc |-> "sleep", items |-> <<>>, i |-> 0, failed |-> None]

\* execution_client.py:42-45: the loop test and the start of a tick, run when
\* the task is first scheduled and each time its sleep ends
Mon_Tick(t) ==
    /\ ecFrame
    /\ t \in DOMAIN tasks
    /\ tasks[t].pc = "sleep"
    /\ tasks' = [tasks EXCEPT ![t] =
                    IF stop_price_updates
                    THEN [pc |-> "done", items |-> <<>>, i |-> 0, failed |-> None]
                    ELSE IF trailing_stops = <<>>
                    THEN [@ EXCEPT !.failed = None]
                    ELSE [pc |-> "get_market_price", items |-> trailing_stops, i |-> 1,
                          failed |-> None]]
    /\ UNCHANGED <<trailing_stops, heap, price_update_task, stop_price_updates,
                   set_calls, stop_waiters>>

\* execution_client.py:43,68-71: the exception leaves the for loop; failed
\* keeps the symbol whose fetch raised until the next tick starts
Mon_AfterPriceFailure(task) ==
    [pc |-> "sleep", items |-> <<>>, i |-> 0,
     failed |-> Some(task.items[task.i].symbol)]

\* execution_client.py:45,68-71: get_market_price raises
Mon_PriceFailed(t) ==
    /\ ecFrame
    /\ t \in DOMAIN tasks
    /\ tasks[t].pc = "get_market_price"
    /\ tasks' = [tasks EXCEPT ![t] = Mon_AfterPriceFailure(@)]
    /\ UNCHANGED <<trailing_stops, heap, price_update_task, stop_price_updates,
                   set_calls, stop_waiters>>

\* execution_client.py:45-66: get_market_price answers current_price
Mon_Priced(t, current_price) ==
    /\ ecFrame
    /\ t \in DOMAIN tasks
    /\ tasks[t].pc = "get_market_price"
    /\ LET id == tasks[t].items[tasks[t].i].stop
           activated == EC_Activate(heap[id], current_price)
       IN  /\ heap' = [heap EXCEPT ![id] = EC_Ratchet(activated, current_price)]
           /\ tasks' = [tasks EXCEPT ![t] =
                           IF EC_Triggers(activated, current_price)
                           THEN [@ EXCEPT !.pc = "get_position"]
                           ELSE Advance(@)]
    /\ UNCHANGED <<trailing_stops, price_update_task, stop_price_updates,
                   set_calls, stop_waiters>>

\* execution_client.py:83,92-93: get_position raises; _execute_stop prints and returns
Mon_PositionFailed(t) ==
    /\ ecFrame
    /\ t \in DOMAIN tasks
    /\ tasks[t].pc = "get_position"
    /\ tasks' = [tasks EXCEPT ![t] = Advance(@)]
    /\ UNCHANGED <<trailing_stops, heap, price_update_task, stop_price_updates,
                   set_calls, stop_waiters>>

\* execution_client.py:83-84,91: no position for the symbol; del raises KeyError
\* into the except of line 92 when the symbol has no stop any more
Mon_PositionNone(t) ==
    /\ ecFrame
    /\ t \in DOMAIN tasks
    /\ tasks[t].pc = "get_position"
    /\ trailing_stops' = DictDel(trailing_stops, tasks[t].items[tasks[t].i].symbol)
    /\ tasks' = [tasks EXCEPT ![t] = Advance(@)]
    /\ UNCHANGED <<heap, price_update_task, stop_price_updates, set_calls, stop_waiters>>

\* mutant: the stop is deleted when the close order is sent, before it returns
Mon_PositionFound_DeletesFirst(t) ==
    /\ ecFrame
    /\ t \in DOMAIN tasks
    /\ tasks[t].pc = "get_position"
    /\ trailing_stops' = DictDel(trailing_stops, tasks[t].items[tasks[t].i].symbol)
    /\ tasks' = [tasks EXCEPT ![t].pc = "execute_trade"]
    /\ UNCHANGED <<heap, price_update_task, stop_price_updates, set_calls, stop_waiters>>

\* execution_client.py:83-90: a position; the close order is sent
Mon_PositionFound(t) ==
    /\ ecFrame
    /\ t \in DOMAIN tasks
    /\ tasks[t].pc = "get_position"
    /\ tasks' = [tasks EXCEPT ![t].pc = "execute_trade"]
    /\ UNCHANGED <<trailing_stops, heap, price_update_task, stop_price_updates,
                   set_calls, stop_waiters>>

\* execution_client.py:85-90,92-93,155-159: execute_trade raises
Mon_TradeFailed(t) ==
    /\ ecFrame
    /\ t \in DOMAIN tasks
    /\ tasks[t].pc = "execute_trade"
    /\ tasks' = [tasks EXCEPT ![t] = Advance(@)]
    /\ UNCHANGED <<trailing_stops, heap, price_update_task, stop_price_updates,
                   set_calls, stop_waiters>>

\* execution_client.py:85-91: execute_trade returns
Mon_TradeReturned(t) ==
    /\ ecFrame
    /\ t \in DOMAIN tasks
    /\ tasks[t].pc = "execute_trade"
    /\ trailing_stops' = DictDel(trailing_stops, tasks[t].items[tasks[t].i].symbol)
    /\ tasks' = [tasks EXCEPT ![t] = Advance(@)]
    /\ UNCHANGED <<heap, price_update_task, stop_price_updates, set_calls, stop_waiters>>

\* execution_client.py:19-25
ECNew ==
    /\ trailing_stops = <<>>
    /\ heap = <<>>
    /\ price_update_task = 0
    /\ stop_price_updates = FALSE
    /\ tasks = <<>>
    /\ set_calls = {}
    /\ stop_waiters = [t \in 1..MaxTasks |-> 0]

(***************************************************************************)
(* Backtester: the portfolio, filled from the agent's decisions            *)
(*                                                                         *)
(* Cash, prices and quantities are integers.  An agent output is a record  *)
(* of what json.loads makes of it: kind "invalid" (json.loads raises),      *)
(* "not_object" (a JSON array, number, string or null) or "object", and    *)
(* for an object the Optional value of each key parse_action reads.        *)
(* run_backtest awaits the executor inside execute_trade; nothing else     *)
(* touches the Backtester meanwhile, so one loop iteration is one step and *)
(* what the executor did is the environment's choice (outcome).            *)
(***************************************************************************)

\* Bound of the model.
MaxDates == 2       \* business days in the backtest's date range

\* backtester.py:21-22: the defaults when the environment sets neither variable
DEFAULT_TRAILING_STOP_PERCENT == 2
TRAILING_STOP_ACTIVATION_OFFSET == 1

BTCapitals == {0, 1000}
BTPrices == {25, 30}

\* the agent outputs: texts that json.loads rejects, JSON that is no object,
\* objects without "action", and decisions
AgentOutputs ==
    {[kind |-> k, action |-> None, quantity |-> None, leverage |-> None,
      trailing_stop_percent |-> None, trailing_stop_activation_offset |-> None]
        : k \in {"invalid", "not_object"}}
    \cup
    {[kind |-> "object", action |-> a, quantity |-> q, leverage |-> None,
      trailing_stop_percent |-> None, trailing_stop_activation_offset |-> None]
        : a \in {None, Some("buy"), Some("sell"), Some("hold")},
          q \in {None, Some(10), Some(50)}}
    \cup
    {[kind |-> "object", action |-> Some("buy"), quantity |-> Some(10),
      leverage |-> Some(2), trailing_stop_percent |-> Some(5),
      trailing_stop_activation_offset |-> Some(3)]}

\* what ExecutionClient.execute_trade did: returned a result with status
\* "filled", returned another result, or raised; "local" when there is no
\* executor
Outcomes(exec) == IF exec THEN {"filled", "rejected", "raised"} ELSE {"local"}

\* dict.get(key, default)
Get(field, default) == IF field = None THEN default ELSE field[1]

\* backtester.py:36-38
BT_hold ==
    [action |-> "hold", quantity |-> 0, leverage |-> 1,
     trail_percent |-> DEFAULT_TRAILING_STOP_PERCENT,
     trail_activation |-> TRAILING_STOP_ACTIVATION_OFFSET]

\* mutant: an output without a decision is read as a buy
BT_parse_action_BuysOnError(agent_output) ==
    IF agent_output.kind = "object" /\ agent_output.action # None
    THEN [action |-> agent_output.action[1],
          quantity |-> Get(agent_output.quantity, 0),
          leverage |-> Get(agent_output.leverage, 1),
          trail_percent |-> Get(agent_output.trailing_stop_percent,
                                DEFAULT_TRAILING_STOP_PERCENT),
          trail_activation |-> Get(agent_output.trailing_stop_activation_offset,
                                   TRAILING_STOP_ACTIVATION_OFFSET)]
    ELSE [BT_hold EXCEPT !.action = "buy", !.quantity = 10]

\* backtester.py:24-38: json.loads raises on an invalid text, decision["action"]
\* raises on a value that is no object and on an object without the key; the
\* bare except turns each into the hold
BT_parse_action(agent_output) ==
    IF agent_output.kind = "object" /\ agent_output.action # None
    THEN [action |-> agent_output.action[1],
          quantity |-> Get(agent_output.quantity, 0),
          leverage |-> Get(agent_output.leverage, 1),
          trail_percent |-> Get(agent_output.trailing_stop_percent,
                                DEFAULT_TRAILING_STOP_PERCENT),
          trail_activation |-> Get(agent_output.trailing_stop_activation_offset,
                                   TRAILING_STOP_ACTIVATION_OFFSET)]
    ELSE BT_hold

\* mutant: a fill moves the stock and leaves the cash as it was
BT_ExecutorFill_KeepsCash(pf, outcome, action, quantity, current_price) ==
    IF outcome = "filled"
    THEN IF action = "buy"
         THEN [portfolio |-> [pf EXCEPT !.stock = @ + quantity], ret |-> quantity]
         ELSE [portfolio |-> [pf EXCEPT !.stock = @ - quantity], ret |-> quantity]
    ELSE [portfolio |-> pf, ret |-> 0]

\* backtester.py:43-65: the executor path; the result has the portfolio after
\* the call and the quantity returned
BT_ExecutorFill(pf, outcome, action, quantity, current_price) ==
    IF outcome = "filled"
    THEN IF action = "buy"
         THEN [portfolio |-> [pf EXCEPT !.stock = @ + quantity,
                                        !.cash = @ - quantity * current_price],
               ret |-> quantity]
         ELSE [portfolio |-> [pf EXCEPT !.stock = @ - quantity,
                                        !.cash = @ + quantity * current_price],
               ret |-> quantity]
    ELSE [portfolio |-> pf, ret |-> 0]

\* backtester.py:66-88: the local paper-trading path
BT_LocalFill(pf, action, quantity, current_price) ==
    IF action = "buy" /\ quantity > 0
    THEN LET cost == quantity * current_price
             max_quantity == pf.cash \div current_price
         IN  IF cost <= pf.cash
             THEN [portfolio |-> [pf EXCEPT !.stock = @ + quantity, !.cash = @ - cost],
                   ret |-> quantity]
             ELSE IF max_quantity > 0
             THEN [portfolio |-> [pf EXCEPT !.stock = @ + max_quantity,
                                            !.cash = @ - max_quantity * current_price],
                   ret |-> max_quantity]
             ELSE [portfolio |-> pf, ret |-> 0]
    ELSE IF action = "sell" /\ quantity > 0
    THEN LET sold == IF quantity < pf.stock THEN quantity ELSE pf.stock
         IN  IF sold > 0
             THEN [portfolio |-> [pf EXCEPT !.cash = @ + sold * current_price,
                                            !.stock = @ - sold],
                   ret |-> sold]
             ELSE [portfolio |-> pf, ret |-> 0]
    ELSE [portfolio |-> pf, ret |-> 0]

\* backtester.py:40-88
BT_execute_trade(pf, exec, outcome, action, quantity, current_price) ==
    IF exec
    THEN BT_ExecutorFill(pf, outcome, action, quantity, current_price)
    ELSE BT_LocalFill(pf, action, quantity, current_price)

\* backtester.py:99-131: one iteration of run_backtest's loop over the dates
BT_Step(agent_output, current_price, outcome) ==
    LET d == BT_parse_action(agent_output)
        r == BT_execute_trade(portfolio, executor, outcome, d.action, d.quantity,
                              current_price)
        total_value == r.portfolio.cash + r.portfolio.stock * current_price
    IN  /\ Len(portfolio_values) < MaxDates
        /\ outcome \in Outcomes(executor)
        /\ portfolio' = [r.portfolio EXCEPT !.portfolio_value = Some(total_value)]
        /\ portfolio_values' =
               Append(portfolio_values,
                      [portfolio_value |-> total_value, action |-> d.action,
                       quantity |-> r.ret, leverage |-> d.leverage,
                       trailing_stop |-> d.trail_percent, price |-> current_price])
        /\ bt_call' = [op |-> "execute_trade", agent_output |-> Some(agent_output),
                       action |-> d.action, quantity |-> d.quantity,
                       leverage |-> d.leverage, current_price |-> current_price,
                       outcome |-> outcome, ret |-> r.ret, before |-> portfolio]
        /\ UNCHANGED executor

\* backtester.py:11-22: the Backtester after construction
BTNew(initial_capital, exec) ==
    /\ executor = exec
    /\ portfolio = [cash |-> initial_capital, stock |-> 0, portfolio_value |-> None]
    /\ portfolio_values = <<>>
    /\ bt_call = [op |-> "init", agent_output |-> None, action |-> "hold",
                  quantity |-> 0, leverage |-> 1, current_price |-> 0,
                  outcome |-> "local", ret |-> 0,
                  before |-> [cash |-> initial_capital, stock |-> 0,
                              portfolio_value |-> None]]

(***************************************************************************)
(* Specifications                                                          *)
(***************************************************************************)

\* position_manager.py:23-25
PMInit ==
    /\ component = "PositionManager.trailing_stops"
    /\ pm_trailing_stops = [s \in Symbols |-> None]
    /\ position_sizes = [s \in Symbols |-> None]
    /\ pm_call = [op |-> "init", symbol |-> "A", current_price |-> 0,
                  activation_price |-> None, trail_percent |-> 0, before |-> None,
                  ret |-> None]
    /\ ECNew
    /\ BTNew(0, FALSE)

pmFrame ==
    component = "PositionManager.trailing_stops" /\ UNCHANGED <<component, ecVars, btVars>>

PMSet ==
    /\ pmFrame
    /\ \E s \in Symbols, t \in PMTrails, p \in PMPrices, a \in PMActivations :
          PM_set_trailing_stop(s, t, p, a)

PMUpdate ==
    /\ pmFrame
    /\ \E s \in Symbols, p \in PMPrices : PM_update_trailing_stop(s, p)

PMRemove ==
    /\ pmFrame
    /\ \E s \in Symbols : PM_remove_trailing_stop(s)

PMNext == PMSet \/ PMUpdate \/ PMRemove

SpecPM == PMInit /\ [][PMNext]_vars

\* position_manager.py:23-25, with or without a trailing stop already set
SizerInit ==
    /\ component = "PositionManager.position_sizes"
    /\ pm_trailing_stops \in
          {[s \in Symbols |-> None],
           [s \in Symbols |-> IF s = "A" THEN Some(PM_NewStop(10, 100, None)) ELSE None]}
    /\ position_sizes = [s \in Symbols |-> None]
    /\ pm_call = [op |-> "init", symbol |-> "A", in |-> None, raised |-> FALSE,
                  ret |-> None]
    /\ ECNew
    /\ BTNew(0, FALSE)

SizerCalculate ==
    /\ component = "PositionManager.position_sizes"
    /\ UNCHANGED <<component, ecVars, btVars>>
    /\ \E s \in Symbols, in \in SizerInputs : PM_calculate_position_size(s, in)

SizerNext == SizerCalculate

SpecSizer == SizerInit /\ [][SizerNext]_vars

\* execution_client.py:19-25
ECInit ==
    /\ component = "ExecutionClient"
    /\ pm_trailing_stops = [s \in Symbols |-> None]
    /\ position_sizes = [s \in Symbols |-> None]
    /\ pm_call = [op |-> "init", symbol |-> "A", current_price |-> 0,
                  activation_price |-> None, trail_percent |-> 0, before |-> None,
                  ret |-> None]
    /\ ECNew
    /\ BTNew(0, FALSE)

ECSetCalled ==
    \E s \in Symbols, tp \in ECTrails, sd \in ECSides, o \in ECOffsets :
        EC_SetCalled(s, tp, sd, o)

ECSetPriceFailed == \E c \in set_calls : EC_SetPriceFailed(c)

ECSetPriced == \E c \in set_calls, p \in ECPrices : EC_SetPriced(c, p)

ECRemove == \E s \in Symbols : EC_remove_trailing_stop(s)

ECStopResumed == \E t \in DOMAIN tasks : EC_StopResumed(t)

MonTick == \E t \in DOMAIN tasks : Mon_Tick(t)

MonPriceFailed == \E t \in DOMAIN tasks : Mon_PriceFailed(t)

MonPriced == \E t \in DOMAIN tasks, p \in ECPrices : Mon_Priced(t, p)

MonPositionFailed == \E t \in DOMAIN tasks : Mon_PositionFailed(t)

MonPositionNone == \E t \in DOMAIN tasks : Mon_PositionNone(t)

MonPositionFound == \E t \in DOMAIN tasks : Mon_PositionFound(t)

MonTradeFailed == \E t \in DOMAIN tasks : Mon_TradeFailed(t)

MonTradeReturned == \E t \in DOMAIN tasks : Mon_TradeReturned(t)

ECNext ==
    \/ ECSetCalled \/ ECSetPriceFailed \/ ECSetPriced \/ ECRemove
    \/ EC_start_price_updates \/ EC_stop_price_updates \/ ECStopResumed
    \/ MonTick \/ MonPriceFailed \/ MonPriced
    \/ MonPositionFailed \/ MonPositionNone \/ MonPositionFound
    \/ MonTradeFailed \/ MonTradeReturned

SpecEC == ECInit /\ [][ECNext]_vars

\* execution_client.py:40-93: the next step of monitor task t, whatever the
\* environment answers
MonStep(t) ==
    \/ Mon_Tick(t) \/ Mon_PriceFailed(t) \/ (\E p \in ECPrices : Mon_Priced(t, p))
    \/ Mon_PositionFailed(t) \/ Mon_PositionNone(t) \/ Mon_PositionFound(t)
    \/ Mon_TradeFailed(t) \/ Mon_TradeReturned(t)

\* The event loop runs every task that is ready, the sleep ends and every HTTP
\* call ends (with an answer or an error): a monitor task that can step does.
\* Nothing is assumed of what the price feed and the venue answer, nor of the
\* callers.
FairSpecEC == SpecEC /\ \A t \in 1..MaxTasks : WF_vars(MonStep(t))

\* backtester.py:11-22: with an executor (paper_trading not None) or without
BTInit ==
    /\ component = "Backtester"
    /\ pm_trailing_stops = [s \in Symbols |-> None]
    /\ position_sizes = [s \in Symbols |-> None]
    /\ pm_call = [op |-> "init", symbol |-> "A", current_price |-> 0,
                  activation_price |-> None, trail_percent |-> 0, before |-> None,
                  ret |-> None]
    /\ ECNew
    /\ \E c \in BTCapitals, e \in BOOLEAN : BTNew(c, e)

BTStep ==
    /\ component = "Backtester"
    /\ UNCHANGED <<component, pmVars, ecVars>>
    /\ \E o \in AgentOutputs, p \in BTPrices, x \in Outcomes(executor) : BT_Step(o, p, x)

BTNext == BTStep

SpecBT == BTInit /\ [][BTNext]_vars

\* A behaviour exercises one PositionManager, one ExecutionClient or one
\* Backtester.
Init == PMInit \/ SizerInit \/ ECInit \/ BTInit

Next == PMNext \/ SizerNext \/ ECNext \/ BTNext

Spec == Init /\ [][Next]_vars


(***************************************************************************)
(* Claims                                                                  *)
(***************************************************************************)

\* the stop of PositionManager call pm_call's symbol, before and after the call
PMBefore == pm_call.before[1]
PMAfter == pm_trailing_stops[pm_call.symbol][1]

\* the TrailingStop object monitor task t is processing
Current(t) == tasks[t].items[tasks[t].i]

\* task t took a step
Stepped(t) == tasks'[t] # tasks[t]

\* the price is at or past the stop price, on the losing side
Crosses(side, current_price, current_stop) ==
    IF side = "long"
    THEN current_price * 100 <= current_stop
    ELSE current_price * 100 >= current_stop

C1_PM ==
    (/\ pm_call.op = "update_trailing_stop"
     /\ pm_call.before # None
     /\ PMBefore.is_active)
    => /\ PMAfter.is_active
       /\ PMAfter.current_stop >= PMBefore.current_stop

C1_EC ==
    \A id \in DOMAIN heap :
        heap[id].is_active =>
            /\ heap'[id].is_active
            /\ heap[id].side = "long" => heap'[id].current_stop >= heap[id].current_stop
            /\ heap[id].side = "short" => heap'[id].current_stop <= heap[id].current_stop

\* C1: once a stop is active, no price update moves its current_stop against
\* the holder: update_trailing_stop never lowers it, and the monitor never
\* lowers a long stop's nor raises a short stop's.
C1_Ratchet == [][C1_PM' /\ C1_EC]_vars

\* an update has raised the current_stop of an active stop
C1_Witness ==
    /\ pm_call.op = "update_trailing_stop"
    /\ pm_call.before # None
    /\ PMBefore.is_active
    /\ PMAfter.current_stop > PMBefore.current_stop

C2_PM ==
    pm_call.op = "update_trailing_stop" =>
        IF pm_call.before = None
        THEN pm_call.ret = None
        ELSE (pm_call.ret # None) <=>
                (/\ PMAfter.is_active
                 /\ Crosses("long", pm_call.current_price, PMAfter.current_stop))

C2_EC ==
    \A t \in DOMAIN tasks : \A p \in ECPrices :
        Mon_Priced(t, p) =>
            LET stop == heap'[Current(t).stop]
            IN  (tasks'[t].pc = "get_position") <=>
                    (stop.is_active /\ Crosses(stop.side, p, stop.current_stop))

\* C2: a price update triggers exactly when, after the stop has been updated
\* for that price, the stop is active and the price is at or below current_stop
\* (long) or at or above it (short); a stop that is still pending never triggers.
C2_TriggerIffCrossed == [][C2_PM' /\ C2_EC]_vars

\* the monitor has called _execute_stop for a short stop
C2_Witness ==
    \E t \in DOMAIN tasks :
        /\ tasks[t].pc = "get_position"
        /\ heap[Current(t).stop].side = "short"
        /\ heap[Current(t).stop].activation_price # None

\* C3: after update_trailing_stop reports a trigger for a symbol, the stop is
\* no longer in the stop map (so later updates report nothing).
C3_TriggerRemovesStop ==
    (pm_call.op = "update_trailing_stop" /\ pm_call.ret # None)
        => pm_trailing_stops[pm_call.symbol] = None

(***************************************************************************)
(* C4: every result calculate_position_size returns has leverage <=        *)
(* max_leverage and position_size <= account_value * max_position_percent  *)
(* * leverage.                                                             *)
(***************************************************************************)
C4_SizeWithinLimits ==
    (pm_call.op = "calculate_position_size" /\ ~pm_call.raised) =>
        LET in == pm_call.in
            r == pm_call.ret[1]
        IN  /\ FLeq(r.leverage, FInt(in.max_leverage))
            /\ FLeq(r.position_size,
                    FMul(FMul(FInt(in.account_value), Frac(in.max_position_percent, 100)),
                         r.leverage))

\* a returned result whose leverage was clamped and whose size was capped
C4_Witness ==
    /\ pm_call.op = "calculate_position_size" /\ ~pm_call.raised
    /\ pm_call.ret[1].leverage = FInt(pm_call.in.max_leverage)
    /\ FLess(FInt(pm_call.in.max_leverage), PM_required_leverage(pm_call.in))
    /\ pm_call.ret[1].position_size = pm_call.ret[1].max_position_size
    /\ position_sizes[pm_call.symbol] = pm_call.ret

\* the stop price set_trailing_stop computes from the price it was given
SetStopPrice(side, current_price, trail_percent) ==
    IF side = "long"
    THEN current_price * (100 - trail_percent)
    ELSE current_price * (100 + trail_percent)

C5_PM_Stop ==
    pm_call.op = "set_trailing_stop" =>
        /\ pm_trailing_stops[pm_call.symbol] = pm_call.ret
        /\ PMAfter.current_stop =
               SetStopPrice("long", pm_call.current_price, pm_call.trail_percent)
        /\ PMAfter.high_water_mark = pm_call.current_price
        /\ pm_call.activation_price = None => PMAfter.is_active

C5_EC_Stop(c, p) ==
    LET stop == heap'[Len(heap')]
    IN  /\ Len(heap') = Len(heap) + 1
        /\ c.symbol \in Keys(trailing_stops')
        /\ trailing_stops'[IndexOf(trailing_stops', c.symbol)].stop = Len(heap')
        /\ stop.current_stop = SetStopPrice(c.side, p, c.trail_percent)
        /\ stop.is_active <=> c.activation_offset = None

\* C5 as amended: set_trailing_stop stores a stop with current_stop =
\* current_price * (1 - trail) (long) or current_price * (1 + trail) (short);
\* without an activation it is active.  With an activation offset the
\* ExecutionClient stop is pending; with an activation price the
\* PositionManager stop is pending only while current_price is below the
\* activation price, and active otherwise.
C5_SetCreatesStop ==
    [][/\ (/\ C5_PM_Stop
           /\ (pm_call.op = "set_trailing_stop" /\ pm_call.activation_price # None)
                  => (PMAfter.is_active <=>
                          pm_call.current_price >= pm_call.activation_price[1]))'
       /\ \A c \in set_calls : \A p \in ECPrices :
              EC_SetPriced(c, p) => C5_EC_Stop(c, p)]_vars

\* a PositionManager stop set with an activation price the price has already
\* reached: it is active
C5_Witness ==
    /\ pm_call.op = "set_trailing_stop"
    /\ pm_call.activation_price # None
    /\ pm_call.current_price >= pm_call.activation_price[1]
    /\ PMAfter.is_active
    /\ PMAfter.current_stop = pm_call.current_price * (100 - pm_call.trail_percent)

\* C5 as written: a stop set with an activation price is always pending
C5_ActivationAlwaysPending ==
    [][/\ (/\ C5_PM_Stop
           /\ (pm_call.op = "set_trailing_stop" /\ pm_call.activation_price # None)
                  => ~PMAfter.is_active)'
       /\ \A c \in set_calls : \A p \in ECPrices :
              EC_SetPriced(c, p) => C5_EC_Stop(c, p)]_vars

C6_PM ==
    (/\ pm_call.op = "update_trailing_stop"
     /\ pm_call.before # None
     /\ ~PMBefore.is_active)
    => /\ PMAfter.is_active <=> pm_call.current_price >= PMBefore.activation_price[1]
       /\ PMAfter.is_active =>
              /\ PMAfter.current_stop =
                     SetStopPrice("long", pm_call.current_price, PMBefore.trail_percent)
              /\ PMAfter.high_water_mark = pm_call.current_price
       /\ ~PMAfter.is_active => PMAfter = PMBefore

C6_EC ==
    \A t \in DOMAIN tasks : \A p \in ECPrices :
        (Mon_Priced(t, p) /\ ~heap[Current(t).stop].is_active) =>
            LET old == heap[Current(t).stop]
                new == heap'[Current(t).stop]
            IN  /\ new.is_active <=>
                       IF old.side = "long"
                       THEN FLeq(old.activation_price[1], FInt(p))
                       ELSE FLeq(FInt(p), old.activation_price[1])
                /\ new.is_active =>
                       new.current_stop = SetStopPrice(old.side, p, old.trail_percent)
                /\ ~new.is_active => new = old

\* C6: a pending stop becomes active on exactly the price updates that reach
\* its activation price (at or above it for a long stop, at or below it for a
\* short stop), and its current_stop is then recomputed from that price; any
\* other update leaves the pending stop as it was.
C6_ActivationAtThreshold == [][C6_PM' /\ C6_EC]_vars

\* a pending short stop that the monitor has activated, and that is being
\* processed at a price at or below its activation price
C6_Witness ==
    \E id \in DOMAIN heap :
        /\ heap[id].side = "short"
        /\ heap[id].activation_price # None
        /\ heap[id].is_active
        /\ heap[id].current_stop = SetStopPrice("short", 90, heap[id].trail_percent)

\* the close order of _execute_stop is issued by the step that takes a
\* monitor from the position query to execute_trade
ClosesOrder(t) == tasks[t].pc = "get_position" /\ tasks'[t].pc = "execute_trade"

\* C7 as amended: for one detected trigger the monitor sends at most one close
\* order: one when the position query reports a position, none when the query
\* fails or reports no position.  It removes the stop only after the position
\* query has returned, and when a position was reported only after the close
\* order has returned without raising; the step that sends the order removes
\* nothing.
C7_RemovedAfterQuery ==
    [][\A t \in DOMAIN tasks :
          /\ (Stepped(t) /\ trailing_stops' # trailing_stops) =>
                 /\ \/ tasks[t].pc = "execute_trade"
                    \/ tasks[t].pc = "get_position" /\ ~ClosesOrder(t)
                 /\ trailing_stops' = DictDel(trailing_stops, Current(t).symbol)
          /\ (Stepped(t) /\ tasks'[t].pc = "execute_trade") => ClosesOrder(t)
          /\ (Stepped(t) /\ tasks[t].pc = "execute_trade") =>
                 tasks'[t].pc \in {"get_market_price", "sleep"}]_vars

\* a close order is in flight and the stop it closes is still in trailing_stops
C7_Witness ==
    \E t \in DOMAIN tasks :
        /\ tasks[t].pc = "execute_trade"
        /\ Current(t).symbol \in Keys(trailing_stops)
        /\ trailing_stops[IndexOf(trailing_stops, Current(t).symbol)].stop = Current(t).stop

\* C7 as written: a detected trigger sends exactly one close order, and the
\* stop is removed only after that order has been sent
C7_ExactlyOneClose ==
    [][\A t \in DOMAIN tasks :
          /\ (Stepped(t) /\ trailing_stops' # trailing_stops) =>
                 tasks[t].pc = "execute_trade"
          /\ (Stepped(t) /\ tasks[t].pc = "get_position") => ClosesOrder(t)]_vars

\* C8: a failed price fetch for one symbol does not keep the monitor from
\* processing the symbols after it in the same tick.
C8_FetchFailureIsolated ==
    [][\A t \in DOMAIN tasks :
          (tasks[t].pc = "get_market_price" /\ tasks[t].i < Len(tasks[t].items))
              => tasks'[t].pc # "sleep"]_vars

\* a close order for stop object id is in flight
Closing(id) ==
    \E t \in DOMAIN tasks : tasks[t].pc = "execute_trade" /\ Current(t).stop = id

\* C9: the close order of a triggered stop is not retried without end: from
\* some point on no close order is sent for it any more.
C9_NoEndlessRetry == \A id \in 1..MaxSets : <>[]~Closing(id)

\* C10: at most one monitor task is alive at any time.
C10_AtMostOneMonitor == Cardinality({t \in DOMAIN tasks : tasks[t].pc # "done"}) <= 1

\* C11: once stop_price_updates has returned, and until start_price_updates
\* is called again (that is, while _price_update_task is None), every monitor
\* task has finished, so no tick is in flight and none starts.
C11_StoppedMeansFinished ==
    price_update_task = 0 => \A t \in DOMAIN tasks : tasks[t].pc = "done"

C12_PM ==
    pm_call'.op = "remove_trailing_stop" =>
        /\ pm_trailing_stops'[pm_call'.symbol] = None
        /\ \A s \in Symbols \ {pm_call'.symbol} :
               pm_trailing_stops'[s] = pm_trailing_stops[s]

\* the stops of ExecutionClient other than symbol's are as they were
C12_EC_OthersKept(symbol) ==
    /\ symbol \notin Keys(trailing_stops')
    /\ \A k \in Keys(trailing_stops) \ {symbol} :
           /\ k \in Keys(trailing_stops')
           /\ trailing_stops'[IndexOf(trailing_stops', k)] =
                  trailing_stops[IndexOf(trailing_stops, k)]
    /\ Keys(trailing_stops') \subseteq Keys(trailing_stops)
    /\ heap' = heap

\* what tells whether the monitor is running
Monitor == <<price_update_task, stop_price_updates, stop_waiters, tasks>>

\* C12 as amended: remove_trailing_stop leaves no stop for the symbol and
\* leaves every other symbol's stop unchanged, so on a symbol without a stop
\* it leaves the stop map unchanged and a second remove leaves the stop map
\* as the first did.  In ExecutionClient a remove for a symbol without a stop
\* leaves the monitor as it was only while other stops remain: when the stop
\* map is empty it calls stop_price_updates, which sets the stop event of a
\* running monitor.
C12_RemoveLeavesOthers ==
    [][/\ C12_PM
       /\ \A s \in Symbols :
              EC_remove_trailing_stop(s) =>
                  /\ C12_EC_OthersKept(s)
                  /\ (s \notin Keys(trailing_stops) /\ trailing_stops # <<>>)
                         => UNCHANGED Monitor
                  /\ (trailing_stops' = <<>> /\ price_update_task # 0)
                         => stop_price_updates']_vars

\* a stop has been removed while the other symbol keeps its stop
C12_Witness ==
    /\ pm_call.op = "remove_trailing_stop"
    /\ pm_call.before # None
    /\ pm_trailing_stops[pm_call.symbol] = None
    /\ \E s \in Symbols \ {pm_call.symbol} : pm_trailing_stops[s] # None

\* C12 as written: a remove for a symbol without a stop changes neither the
\* stop map nor whether the monitor is running
C12_AbsentRemoveIsNoOp ==
    [][/\ C12_PM
       /\ \A s \in Symbols :
              EC_remove_trailing_stop(s) =>
                  /\ C12_EC_OthersKept(s)
                  /\ s \notin Keys(trailing_stops) => UNCHANGED Monitor]_vars

\* Scenario A of the sizing rules
ScenarioA ==
    [account_value |-> 100000, risk_percent |-> 1, entry_price |-> 2000,
     stop_loss |-> 1900, max_leverage |-> 5, max_position_percent |-> 20]

\* the smaller of two fractions
Smaller(x, y) == IF FLeq(x, y) THEN x ELSE y

\* C13: a call that returns has leverage = min(requiredLeverage, maxLeverage)
\* and positionSize = min(baseSize * leverage, accountValue *
\* maxPositionPercent * leverage), with baseSize = accountValue * riskPercent /
\* |entryPrice - stopLoss| and requiredLeverage = baseSize * entryPrice /
\* (accountValue * maxPositionPercent); (100000, 0.01, 2000, 1900, 5, 0.2)
\* gives leverage 1 and positionSize 10.
C13_SizeFormula ==
    (pm_call.op = "calculate_position_size" /\ ~pm_call.raised) =>
        LET in == pm_call.in
            r == pm_call.ret[1]
            accountValue == FInt(in.account_value)
            maxPositionPercent == Frac(in.max_position_percent, 100)
            baseSize == FDiv(FMul(accountValue, Frac(in.risk_percent, 100)),
                             FAbs(FSub(FInt(in.entry_price), FInt(in.stop_loss))))
            requiredLeverage == FDiv(FMul(baseSize, FInt(in.entry_price)),
                                     FMul(accountValue, maxPositionPercent))
            leverage == Smaller(requiredLeverage, FInt(in.max_leverage))
        IN  /\ r.leverage = leverage
            /\ r.position_size =
                   Smaller(FMul(baseSize, leverage),
                           FMul(FMul(accountValue, maxPositionPercent), leverage))
            /\ in = ScenarioA => r.leverage = FInt(1) /\ r.position_size = FInt(10)

\* Scenario A has been sized: leverage 1, position size 10
C13_Witness ==
    /\ pm_call.op = "calculate_position_size"
    /\ pm_call.in = ScenarioA
    /\ ~pm_call.raised
    /\ pm_call.ret[1].leverage = FInt(1)
    /\ pm_call.ret[1].position_size = FInt(10)

\* C14: a call with account_value <= 0, entry_price <= 0, risk_percent outside
\* (0,1] or max_position_percent outside (0,1] fails and returns no result.
C14_InvalidInputFails ==
    (/\ pm_call.op = "calculate_position_size"
     /\ \/ pm_call.in.account_value <= 0
        \/ pm_call.in.entry_price <= 0
        \/ pm_call.in.risk_percent <= 0 \/ pm_call.in.risk_percent > 100
        \/ pm_call.in.max_position_percent <= 0
        \/ pm_call.in.max_position_percent > 100)
    => pm_call.raised /\ pm_call.ret = None

\* C15: a call with stop_loss equal to entry_price raises instead of returning
\* a result, and leaves position_sizes as it was.
C15_ZeroDistanceFails ==
    [][(/\ pm_call'.op = "calculate_position_size"
        /\ pm_call'.in.entry_price = pm_call'.in.stop_loss)
       => /\ pm_call'.raised
          /\ pm_call'.ret = None
          /\ position_sizes' = position_sizes]_vars

\* a call with a zero price distance and otherwise non-zero inputs has raised,
\* and the size recorded earlier for the symbol is still there
C15_Witness ==
    /\ pm_call.op = "calculate_position_size"
    /\ pm_call.in.entry_price = pm_call.in.stop_loss
    /\ pm_call.in.entry_price # 0
    /\ pm_call.in.account_value * pm_call.in.max_position_percent # 0
    /\ pm_call.raised
    /\ position_sizes[pm_call.symbol] # None

\* two calls in a row with the same arguments end the same way
C16_Deterministic ==
    (/\ pm_call.op = "calculate_position_size"
     /\ pm_call'.op = "calculate_position_size"
     /\ pm_call'.in = pm_call.in)
    => pm_call'.raised = pm_call.raised /\ pm_call'.ret = pm_call.ret

\* C16 as amended: calculate_position_size leaves trailing_stops unchanged and
\* records the result it returns in position_sizes[symbol], changing no other
\* symbol's entry (and nothing at all when it raises); two calls with the same
\* arguments return the same result.
C16_RecordsOnlyItsResult ==
    [][pm_call'.op = "calculate_position_size" =>
          /\ pm_trailing_stops' = pm_trailing_stops
          /\ position_sizes' =
                 IF pm_call'.raised THEN position_sizes
                 ELSE [position_sizes EXCEPT ![pm_call'.symbol] = pm_call'.ret]
          /\ C16_Deterministic]_vars

\* a call has recorded its result for one symbol; the other symbol has no
\* entry and the trailing stop set before is still there
C16_Witness ==
    /\ pm_call.op = "calculate_position_size"
    /\ ~pm_call.raised
    /\ position_sizes[pm_call.symbol] = pm_call.ret
    /\ \E s \in Symbols \ {pm_call.symbol} : position_sizes[s] = None
    /\ pm_trailing_stops["A"] # None

\* C16 as written: a call changes neither trailing_stops nor position_sizes
C16_NoSideEffects ==
    [][pm_call'.op = "calculate_position_size" =>
          /\ pm_trailing_stops' = pm_trailing_stops
          /\ position_sizes' = position_sizes
          /\ C16_Deterministic]_vars

\* the smaller of two integers
Min(a, b) == IF a <= b THEN a ELSE b

\* the last execute_trade call filled exactly filled units, bought (sign 1)
\* or sold (sign -1) at the call's price
Filled(filled, sign) ==
    /\ bt_call.ret = filled
    /\ portfolio.cash = bt_call.before.cash - sign * filled * bt_call.current_price
    /\ portfolio.stock = bt_call.before.stock + sign * filled

\* the order of the last execute_trade call was not refused: there is no
\* executor, or the executor reported it filled
Accepted == bt_call.outcome \in {"local", "filled"}

\* C17: a buy at a positive price (that the executor, if there is one, reports
\* filled) fills exactly min(quantity, floor(cash / price)) units, takes
\* filled * price from cash and adds filled to stock.
C17_BuyFill ==
    (/\ bt_call.op = "execute_trade"
     /\ bt_call.action = "buy"
     /\ bt_call.current_price > 0
     /\ Accepted)
    => Filled(Min(bt_call.quantity, bt_call.before.cash \div bt_call.current_price), 1)

\* C18: a sell (that the executor, if there is one, reports filled) fills
\* exactly min(quantity, stock) units, adds filled * price to cash and takes
\* filled from stock.
C18_SellFill ==
    (bt_call.op = "execute_trade" /\ bt_call.action = "sell" /\ Accepted)
        => Filled(Min(bt_call.quantity, bt_call.before.stock), -1)

\* C19: an action other than buy and sell fills 0 and leaves cash and stock
\* unchanged.
C19_OtherActionNoFill ==
    (bt_call.op = "execute_trade" /\ bt_call.action \notin {"buy", "sell"})
        => Filled(0, 1)

\* the agent output of the last step holds no decision: it is no JSON, no
\* JSON object, or an object without "action"
Unparsable ==
    /\ bt_call.op = "execute_trade"
    /\ \/ bt_call.agent_output[1].kind # "object"
       \/ bt_call.agent_output[1].action = None

\* C20: an agent output that cannot be parsed into a decision becomes hold
\* with quantity 0 and leverage 1; the step goes on to execute_trade and to
\* its snapshot, and cash and stock are as before the step.
C20_UnparsableHolds ==
    Unparsable =>
        /\ bt_call.action = "hold" /\ bt_call.quantity = 0 /\ bt_call.leverage = 1
        /\ Filled(0, 1)
        /\ portfolio_values # <<>>
        /\ portfolio_values[Len(portfolio_values)].action = "hold"
        /\ portfolio_values[Len(portfolio_values)].quantity = 0

\* an invalid agent output reached an executor that reported a fill, with
\* stock in the portfolio, and cash and stock are as before
C20_Witness ==
    /\ Unparsable
    /\ bt_call.agent_output[1].kind = "invalid"
    /\ executor /\ bt_call.outcome = "filled"
    /\ bt_call.before.stock > 0
    /\ portfolio.stock = bt_call.before.stock
    /\ portfolio.cash = bt_call.before.cash
    /\ Len(portfolio_values) = 2

\* monitor task t waits for the price of symbol s
Fetching(t, s) ==
    t \in DOMAIN tasks /\ tasks[t].pc = "get_market_price" /\ Current(t).symbol = s

\* monitor task t has ended a tick at a failed price fetch for symbol s and
\* sleeps before its next tick
FetchFailed(t, s) ==
    t \in DOMAIN tasks /\ tasks[t].pc = "sleep" /\ tasks[t].failed = Some(s)

\* C21: no failure of a price fetch or of a close order ends the monitor
\* loop: unless stop_price_updates is called, a tick that failed is followed
\* by another tick, and a symbol whose price fetch failed is fetched again on
\* a later tick (for as long as it has a stop).
C21_FailedFetchRetried ==
    \A t \in 1..MaxTasks, s \in Symbols :
        /\ FetchFailed(t, s) ~> (~FetchFailed(t, s) \/ stop_price_updates)
        /\ FetchFailed(t, s)
               ~> \/ Fetching(t, s)
                  \/ s \notin Keys(trailing_stops)
                  \/ stop_price_updates

\* a monitor task is running for the client: the task _price_update_task
\* holds has not finished and has not been told to stop
MonitorRunning ==
    /\ price_update_task # 0
    /\ tasks[price_update_task].pc # "done"
    /\ ~stop_price_updates

\* C22: a set_trailing_stop that completes leaves its stop with a running
\* monitor, also when it completes while a stop_price_updates (called
\* directly or by remove_trailing_stop of the last stop) still waits for the
\* old task: it does not end with a stored stop and no monitor.
C22_SetLeavesMonitor ==
    [][\A c \in set_calls, p \in ECPrices :
          EC_SetPriced(c, p) => MonitorRunning']_vars

\* no call of the client is suspended in stop_price_updates, so every
\* remove_trailing_stop made so far has returned
NoStopWaiting == SumTo(stop_waiters, MaxTasks) = 0

\* C23: after remove_trailing_stop(symbol) has returned the monitor sends no
\* close order for the symbol unless set_trailing_stop is called for it
\* again, also when the stop was removed while a tick that had it in its
\* snapshot was suspended in a price fetch or a position query.  (With one
\* monitor task ever created and no call waiting in stop_price_updates, a
\* symbol without a stop and without a set_trailing_stop call in progress is
\* one whose remove_trailing_stop has returned.)
C23_NoCloseAfterRemove ==
    [][\A t \in DOMAIN tasks :
          (ClosesOrder(t) /\ Len(tasks) = 1 /\ NoStopWaiting) =>
              \/ Current(t).symbol \in Keys(trailing_stops)
              \/ \E c \in set_calls : c.symbol = Current(t).symbol]_vars

\* monitor task t, in _execute_stop for the stop of entry e, takes a step
OwnTrigger(t, e) ==
    /\ tasks[t].pc \in {"get_position", "execute_trade"}
    /\ Stepped(t)
    /\ Current(t) = e

\* C24: a stop that set_trailing_stop stored leaves trailing_stops only by
\* remove_trailing_stop for its symbol, by a later set_trailing_stop for its
\* symbol that replaces it, or by its own trigger; the trigger of an older
\* stop object of the same symbol, replaced while a tick was suspended, does
\* not delete the newer stop.
C24_LeavesOnlyByOwnTrigger ==
    [][\A k \in DOMAIN trailing_stops :
          LET e == trailing_stops[k]
          IN  (\A j \in DOMAIN trailing_stops' : trailing_stops'[j] # e) =>
                  \/ EC_remove_trailing_stop(e.symbol)
                  \/ \E c \in set_calls, p \in ECPrices :
                         c.symbol = e.symbol /\ EC_SetPriced(c, p)
                  \/ \E t \in DOMAIN tasks : OwnTrigger(t, e)]_vars

\* C25: after any sequence of execute_trade calls from cash >= 0 and stock 0
\* at positive prices, cash and stock are not negative, on the executor path
\* and on the local path.
C25_NeverNegative == portfolio.cash >= 0 /\ portfolio.stock >= 0

\* cash + stock * current_price of portfolio pf
Value(pf, current_price) == pf.cash + pf.stock * current_price

\* C26: an execute_trade call at price p leaves cash + stock * p unchanged,
\* so the total that run_backtest records for the step is the cash + stock * p
\* of the portfolio before the fill.
C26_ValueConserved ==
    bt_call.op = "execute_trade" =>
        LET p == bt_call.current_price
        IN  /\ Value(portfolio, p) = Value(bt_call.before, p)
            /\ portfolio.portfolio_value = Some(Value(bt_call.before, p))
            /\ portfolio_values[Len(portfolio_values)].portfolio_value =
                   Value(bt_call.before, p)
            /\ portfolio_values[Len(portfolio_values)].price = p

\* fills have moved cash into stock and back: the second step sold at 30 part
\* of what the first bought at 25
C26_Witness ==
    /\ Len(portfolio_values) = 2
    /\ bt_call.action = "sell" /\ bt_call.ret > 0
    /\ bt_call.current_price = 30
    /\ portfolio_values[1].action = "buy" /\ portfolio_values[1].price = 25
    /\ portfolio_values[1].quantity > 0
    /\ portfolio.stock = bt_call.before.stock - bt_call.ret
    /\ portfolio.cash = bt_call.before.cash + bt_call.ret * 30
    /\ portfolio.stock > 0

====
